---- MODULE Spec2Model ----
(***************************************************************************)
(* Quality-code engine of hydrobot (src/hydrobot/evaluator.py and          *)
(* src/hydrobot/data_sources.py).                                          *)
(*                                                                         *)
(* Timestamps are whole seconds since a midnight epoch.  A series is a     *)
(* sequence of rows [t, v] in index order; a quality frame is a sequence   *)
(* of rows [t, Value, Code, Details] in index order.  np.NaN is the value  *)
(* NaN below; every comparison with NaN is false, as in numpy/pandas.      *)
(* A "Code" is the list of its ", "-separated tags (<<>> is NaN) and a     *)
(* "Details" text is the record of the values its f-string interpolates.   *)
(***************************************************************************)
EXTENDS Integers, Sequences, FiniteSets, TLC

VARIABLES
    series,            \* logged series handed to the evaluator
    check_series,      \* check series handed to the evaluator
    qc_evaluator,      \* data_sources.Measurement instance
    gap_limit,         \* gap_limit argument of the entry point
    max_qc,            \* max_qc argument (NaN = unset)
    interval_dict,     \* interval_dict argument ("unset" or list of rules)
    qc_frame,          \* the quality frame the running function holds
    pc,                \* position of the running function
    rule_idx,          \* bulk_downgrade_out_of_validation: next dict key
    steps,             \* functions of evaluator.py that have returned, in order
    err,               \* exception that ended the call ("none" if none)
    warned,            \* warnings.warn was called
    base_datum,        \* find_qc argument
    check_datum,       \* find_qc argument
    qc_value,          \* find_qc result (NaN before the call)
    datum_type,        \* type of the find_qc arguments: "numpy.float64" or "float"
    target_time,       \* dt, the timestamp argument of the nearest-time functions
    ret                \* record of an earlier call, kept for comparison

vars == <<series, check_series, qc_evaluator, gap_limit, max_qc, interval_dict,
          qc_frame, pc, rule_idx, steps, err, warned,
          base_datum, check_datum, qc_value, datum_type, target_time, ret>>

encVars == <<series, check_series, qc_evaluator, gap_limit, max_qc,
             interval_dict, qc_frame, pc, rule_idx, steps, err, warned>>

gradeVars == <<base_datum, check_datum, qc_value>>

callVars == <<datum_type, target_time, ret>>

-----------------------------------------------------------------------------
(* Bounds of the model *)

NumSamples == 4

MaxChecks == 2

MaxPasses == 2

MaxDatum == 6

-----------------------------------------------------------------------------
(* Time and value domain *)

NaN == 0 - 999999

IsNaN(x) == x = NaN

Day == 24 * 3600

\* pd.DateOffset(months=k), on a calendar of 30-day months
Months(k) == k * 30 * Day

Abs(x) == IF x < 0 THEN 0 - x ELSE x

\* numpy/pandas ordering: any comparison with NaN is False
Lt(x, y) == ~IsNaN(x) /\ ~IsNaN(y) /\ x < y

Gt(x, y) == ~IsNaN(x) /\ ~IsNaN(y) /\ x > y

\* DatetimeIndex.ceil("D")
CeilDay(t) == ((t + Day - 1) \div Day) * Day

RECURSIVE SetToSortedSeq(_)
SetToSortedSeq(S) ==
    IF S = {} THEN <<>>
    ELSE LET m == CHOOSE x \in S : \A y \in S : x <= y
         IN  <<m>> \o SetToSortedSeq(S \ {m})

Labels(frame) == {frame[i].t : i \in 1..Len(frame)}

Range(seq) == {seq[i] : i \in 1..Len(seq)}

NaNCode == <<>>

NaNDetails == [kind |-> "NaN", a |-> 0, b |-> 0, lim |-> <<>>]

NaNRow(t) == [t |-> t, Value |-> NaN, Code |-> NaNCode, Details |-> NaNDetails]

\* DataFrame.sort_index(): rows by ascending label, equal labels keep their order
RECURSIVE sort_index(_)
sort_index(frame) ==
    IF Len(frame) <= 1 THEN frame
    ELSE LET m == CHOOSE i \in 1..Len(frame) :
                    /\ \A j \in 1..Len(frame) : frame[i].t <= frame[j].t
                    /\ \A j \in 1..(i-1) : frame[j].t # frame[i].t
             rest == [j \in 1..(Len(frame)-1) |-> IF j < m THEN frame[j] ELSE frame[j+1]]
         IN  <<frame[m]>> \o sort_index(rest)

\* frame.loc[label] = row : overwrite every row carrying the label, else append
SetRow(frame, row) ==
    IF row.t \in Labels(frame)
    THEN [i \in 1..Len(frame) |-> IF frame[i].t = row.t THEN row ELSE frame[i]]
    ELSE Append(frame, row)

\* frame.loc[frame.index[-1], "Value"] = 0
ForceLastZero(frame) ==
    LET last == frame[Len(frame)].t
    IN  [i \in 1..Len(frame) |->
            IF frame[i].t = last THEN [frame[i] EXCEPT !.Value = 0] ELSE frame[i]]

-----------------------------------------------------------------------------
(* data_sources.Measurement *)

Measurement_find_qc_le(self, base, check) ==
    LET diff == IF IsNaN(base) \/ IsNaN(check) THEN NaN ELSE Abs(base - check)
    IN  IF ~IsNaN(diff) /\ diff <= self.qc_600_limit THEN 600
        ELSE IF ~IsNaN(diff) /\ diff <= self.qc_500_limit THEN 500
        ELSE 400

Measurement_find_qc(self, base, check) ==
    LET diff == IF IsNaN(base) \/ IsNaN(check) THEN NaN ELSE Abs(base - check)
    IN  IF Lt(diff, self.qc_600_limit) THEN 600
        ELSE IF Lt(diff, self.qc_500_limit) THEN 500
        ELSE 400

-----------------------------------------------------------------------------
(* data_sources.TwoLevelMeasurement *)

\* np.abs(base / check - 1) * 100 < limit, in whole numbers; the quotient by
\* a zero check is inf or NaN for numpy operands and no limit is above those
PercentBelow(base, check, limit) ==
    /\ ~IsNaN(base)
    /\ ~IsNaN(check)
    /\ check # 0
    /\ Abs(base - check) * 100 < limit * Abs(check)

\* lines 117-134 with the percentage difference taken without np.abs
TwoLevelMeasurement_find_qc_signed(self, base, check, type) ==
    IF Lt(base, self.limit_percent_threshold)
    THEN LET diff == IF IsNaN(check) THEN NaN ELSE Abs(base - check)
         IN  [err |-> "none",
              qc  |-> IF Lt(diff, self.qc_600_limit) THEN 600
                      ELSE IF Lt(diff, self.qc_500_limit) THEN 500
                      ELSE 400]
    ELSE IF check = 0 /\ type = "float"
    THEN [err |-> "ZeroDivisionError", qc |-> NaN]
    ELSE LET below(limit) ==
                 /\ ~IsNaN(base) /\ ~IsNaN(check) /\ check # 0
                 /\ IF (base - check) * check >= 0
                    THEN Abs(base - check) * 100 < limit * Abs(check)
                    ELSE 0 - Abs(base - check) * 100 < limit * Abs(check)
         IN  [err |-> "none",
              qc  |-> IF below(self.qc_600_percent) THEN 600
                      ELSE IF below(self.qc_500_percent) THEN 500
                      ELSE 400]

\* the tier is chosen by base_datum < limit_percent_threshold (line 117),
\* False for a NaN base; Python floats raise on a division by zero, numpy
\* floats give inf or NaN and a RuntimeWarning
TwoLevelMeasurement_find_qc(self, base, check, type) ==
    IF Lt(base, self.limit_percent_threshold)
    THEN LET diff == IF IsNaN(check) THEN NaN ELSE Abs(base - check)
         IN  [err |-> "none",
              qc  |-> IF Lt(diff, self.qc_600_limit) THEN 600
                      ELSE IF Lt(diff, self.qc_500_limit) THEN 500
                      ELSE 400]
    ELSE IF check = 0 /\ type = "float"
    THEN [err |-> "ZeroDivisionError", qc |-> NaN]
    ELSE [err |-> "none",
          qc  |-> IF PercentBelow(base, check, self.qc_600_percent) THEN 600
                  ELSE IF PercentBelow(base, check, self.qc_500_percent) THEN 500
                  ELSE 400]

\* qc_evaluator.find_qc(base, check): the method of the object's class
find_qc(self, base, check, type) ==
    IF "limit_percent_threshold" \in DOMAIN self
    THEN TwoLevelMeasurement_find_qc(self, base, check, type)
    ELSE [err |-> "none", qc |-> Measurement_find_qc(self, base, check)]

-----------------------------------------------------------------------------
(* evaluator.py: nearest-time matching *)

Index(s) == [i \in 1..Len(s) |-> s[i].t]

dropna(s) == SelectSeq(s, LAMBDA r : ~IsNaN(r.v))

\* Index.get_indexer([dt], method="nearest") on an increasing index: the
\* nearer of the pad and backfill neighbours, the later one on a tie;
\* 0 stands for pandas' -1 (no such position).
get_indexer_nearest(idx, dt) ==
    LET pad  == {i \in 1..Len(idx) : idx[i] <= dt}
        bfl  == {i \in 1..Len(idx) : idx[i] >= dt}
        left  == IF pad = {} THEN 0 ELSE CHOOSE i \in pad : \A j \in pad : j <= i
        right == IF bfl = {} THEN 0 ELSE CHOOSE i \in bfl : \A j \in bfl : i <= j
    IN  IF left = 0 THEN right
        ELSE IF right = 0 THEN left
        ELSE IF dt - idx[left] < idx[right] - dt THEN left ELSE right

\* lines 259-265 with the end points of the span refused
find_nearest_time_open_span(s, dt) ==
    IF dt <= s[1].t \/ dt >= s[Len(s)].t
    THEN [err |-> "KeyError: Timestamp not within data range", t |-> NaN]
    ELSE [err |-> "none", t |-> Index(s)[get_indexer_nearest(Index(s), dt)]]

\* lines 259-265: the range check, then the nearest label of the whole index
find_nearest_time(s, dt) ==
    IF dt < s[1].t \/ dt > s[Len(s)].t
    THEN [err |-> "KeyError: Timestamp not within data range", t |-> NaN]
    ELSE [err |-> "none", t |-> Index(s)[get_indexer_nearest(Index(s), dt)]]

find_nearest_valid_time(s, dt) ==
    IF dt < s[1].t \/ dt > s[Len(s)].t
    THEN [err |-> "KeyError: Timestamp not within data range", t |-> NaN]
    ELSE LET valid == Index(dropna(s))
             out   == get_indexer_nearest(valid, dt)
         IN  IF out = 0
             THEN [err |-> "IndexError", t |-> NaN]
             ELSE [err |-> "none", t |-> valid[out]]

ValueAt(s, t) == s[CHOOSE i \in 1..Len(s) : s[i].t = t].v

-----------------------------------------------------------------------------
(* evaluator.py: check_data_quality_code *)

DefaultGapLimit == 10800

\* DataFrame.shift(periods=-1): every column moves up one row, labels stay
shift_back(frame) ==
    [i \in 1..Len(frame) |->
        IF i < Len(frame)
        THEN [frame[i+1] EXCEPT !.t = frame[i].t]
        ELSE NaNRow(frame[i].t)]

\* lines 153-165, with <= for < in the tolerance test
CheckRow_le(s, ev, gl, chk, adjusted_time) ==
    [t       |-> chk.t,
     Value   |-> IF Abs(adjusted_time - chk.t) <= gl
                 THEN Measurement_find_qc(ev, ValueAt(s, adjusted_time), chk.v)
                 ELSE 200,
     Code    |-> <<"CHK">>,
     Details |-> [kind |-> "CHK", a |-> chk.t, b |-> adjusted_time, lim |-> <<>>]]

\* lines 153-165: the row written for one check
CheckRow(s, ev, gl, chk, adjusted_time) ==
    [t       |-> chk.t,
     Value   |-> IF Abs(adjusted_time - chk.t) < gl
                 THEN Measurement_find_qc(ev, ValueAt(s, adjusted_time), chk.v)
                 ELSE 200,
     Code    |-> <<"CHK">>,
     Details |-> [kind |-> "CHK", a |-> chk.t, b |-> adjusted_time, lim |-> <<>>]]

\* lines 151-167: the loop over the checks, from check k on
RECURSIVE CheckLoop(_, _, _, _, _, _)
CheckLoop(s, cs, ev, gl, k, acc) ==
    IF k > Len(cs) THEN [err |-> "none", frame |-> acc]
    ELSE LET near == find_nearest_valid_time(s, cs[k].t)
         IN  IF near.err # "none"
             THEN [err |-> near.err, frame |-> <<>>]
             ELSE CheckLoop(s, cs, ev, gl, k + 1,
                            SetRow(acc, CheckRow(s, ev, gl, cs[k], near.t)))

\* lines 168-169 without the shift
ShiftAndPend_no_shift(frame) == ForceLastZero(frame)

\* lines 168-169 without the forced 0
ShiftAndPend_no_pending(frame) == shift_back(frame)

\* lines 168-169
ShiftAndPend(frame) == ForceLastZero(shift_back(frame))

\* lines 120-126 with a graded record
NoCheckData_graded(first_data_date) ==
    [err |-> "none", warned |-> TRUE,
     frame |-> <<[NaNRow(first_data_date) EXCEPT !.Value = 0]>>]

\* lines 120-126: warnings.warn, then the one-row frame
NoCheckData(first_data_date) ==
    [err |-> "none", warned |-> TRUE, frame |-> <<NaNRow(first_data_date)>>]

\* line 140 with the end points of the span excluded
CheckOutOfRange_open_span(s, cs) ==
    cs[1].t <= s[1].t \/ cs[Len(cs)].t >= s[Len(s)].t

\* line 140
CheckOutOfRange(s, cs) ==
    cs[1].t < s[1].t \/ cs[Len(cs)].t > s[Len(s)].t

check_data_quality_code(s, cs, ev, gl) ==
    LET first_data_date == s[1].t
    IN  IF Len(cs) = 0
        THEN NoCheckData(first_data_date)
        ELSE IF CheckOutOfRange(s, cs)
        THEN [err |-> "KeyError: check data out of range",
              warned |-> FALSE, frame |-> <<>>]
        ELSE LET loop == CheckLoop(s, cs, ev, gl, 1, <<NaNRow(first_data_date)>>)
             IN  IF loop.err # "none"
                 THEN [err |-> loop.err, warned |-> FALSE, frame |-> <<>>]
                 ELSE [err |-> "none", warned |-> FALSE,
                       frame |-> ShiftAndPend(loop.frame)]

-----------------------------------------------------------------------------
(* evaluator.py: validation-interval downgrade *)

\* _default_date_offset_dict, in dict order
DefaultIntervalDict ==
    << [max_interval |-> Months(2), downgraded_qc |-> 500],
       [max_interval |-> Months(4), downgraded_qc |-> 400],
       [max_interval |-> Months(6), downgraded_qc |-> 200] >>

FrameValueAt(frame, t) == frame[CHOOSE i \in 1..Len(frame) : frame[i].t = t].Value

\* lines 579-609 with >= for > in the grade test of line 586
single_downgrade_out_of_validation_ge(frame, cs, max_interval, downgraded_qc, day_end_rounding) ==
    LET n == Len(cs)
        due_date(i) == IF day_end_rounding
                       THEN CeilDay(cs[i].t + max_interval)
                       ELSE cs[i].t + max_interval
        missing == \E i \in 1..(n-1) : cs[i].t \notin Labels(frame)
        overdue(i) == /\ due_date(i) < cs[i+1].t
                      /\ ~IsNaN(FrameValueAt(frame, cs[i].t))
                      /\ FrameValueAt(frame, cs[i].t) >= downgraded_qc
        unvalidated == SetToSortedSeq({i \in 1..(n-1) : overdue(i)})
        downgraded_times ==
            [k \in 1..Len(unvalidated) |->
                [t       |-> due_date(unvalidated[k]),
                 Value   |-> downgraded_qc,
                 Code    |-> <<"OOV">>,
                 Details |-> [kind |-> "OOV", a |-> cs[k].t,
                              b |-> downgraded_qc, lim |-> <<>>]]]
        merged == IF Len(unvalidated) > 0
                  THEN sort_index(frame \o downgraded_times)
                  ELSE frame
    IN  IF missing
        THEN [err |-> "KeyError: not in index", frame |-> <<>>]
        ELSE [err |-> "none", frame |-> ForceLastZero(merged)]

single_downgrade_out_of_validation(frame, cs, max_interval, downgraded_qc, day_end_rounding) ==
    LET n == Len(cs)
        due_date(i) == IF day_end_rounding
                       THEN CeilDay(cs[i].t + max_interval)
                       ELSE cs[i].t + max_interval
        missing == \E i \in 1..(n-1) : cs[i].t \notin Labels(frame)
        overdue(i) == /\ due_date(i) < cs[i+1].t
                      /\ Gt(FrameValueAt(frame, cs[i].t), downgraded_qc)
        unvalidated == SetToSortedSeq({i \in 1..(n-1) : overdue(i)})
        downgraded_times ==
            [k \in 1..Len(unvalidated) |->
                [t       |-> due_date(unvalidated[k]),
                 Value   |-> downgraded_qc,
                 Code    |-> <<"OOV">>,
                 Details |-> [kind |-> "OOV", a |-> cs[k].t,
                              b |-> downgraded_qc, lim |-> <<>>]]]
        merged == IF Len(unvalidated) > 0
                  THEN sort_index(frame \o downgraded_times)
                  ELSE frame
    IN  IF missing
        THEN [err |-> "KeyError: not in index", frame |-> <<>>]
        ELSE [err |-> "none", frame |-> ForceLastZero(merged)]

-----------------------------------------------------------------------------
(* evaluator.py: gaps *)

isna(s, p) == IsNaN(s[p + 1].v)

\* line 30 without the closing True: a run that reaches the last sample is
\* not closed
gap_finder_open_end(s) ==
    LET n     == Len(s)
        idx0  == SetToSortedSeq({0} \cup {p \in 1..(n-1) : isna(s, p) # isna(s, p-1)})
        runs  == {k \in 1..(Len(idx0)-1) : isna(s, idx0[k])}
        order == SetToSortedSeq(runs)
    IN  [g \in 1..Len(order) |->
            [t     |-> s[idx0[order[g]] + 1].t,
             pos   |-> idx0[order[g]],
             count |-> idx0[order[g] + 1] - idx0[order[g]]]]

\* positions are 0-based, as in numpy: idx0 holds 0, every position where
\* isna changes, and len(data); a run starting at a NaN sample is a gap
gap_finder(s) ==
    LET n     == Len(s)
        idx0  == SetToSortedSeq({0, n} \cup {p \in 1..(n-1) : isna(s, p) # isna(s, p-1)})
        runs  == {k \in 1..(Len(idx0)-1) : isna(s, idx0[k])}
        order == SetToSortedSeq(runs)
    IN  [g \in 1..Len(order) |->
            [t     |-> s[idx0[order[g]] + 1].t,
             pos   |-> idx0[order[g]],
             count |-> idx0[order[g] + 1] - idx0[order[g]]]]

\* Index.get_loc(label) on an index without duplicates, 0-based
get_loc(idx, label) == (CHOOSE i \in 1..Len(idx) : idx[i] = label) - 1

\* line 78 with < for <=
IsSmallGap_lt(gap, gl) == gap.count < gl

\* line 78: if gap[1] <= gap_limit
IsSmallGap(gap, gl) == gap.count <= gl

\* lines 77-86: the loop over the gaps found in the series as it was passed;
\* s is the series as shortened so far
RECURSIVE SmallGapLoop(_, _, _, _)
SmallGapLoop(s, gl, gaps, k) ==
    IF k > Len(gaps) THEN s
    ELSE IF IsSmallGap(gaps[k], gl)
    THEN LET loc  == get_loc(Index(s), gaps[k].t)
             last == IF loc + gaps[k].count < Len(s) THEN loc + gaps[k].count
                     ELSE Len(s)
             rows == {s[i].t : i \in (loc + 1)..last}
         IN  SmallGapLoop(SelectSeq(s, LAMBDA r : r.t \notin rows), gl, gaps, k + 1)
    ELSE SmallGapLoop(s, gl, gaps, k + 1)

small_gap_closer(s, gl) == SmallGapLoop(s, gl, gap_finder(s), 1)

\* line 196 with >= for >
IsLongGap_ge(gap, gl) == gap.count >= gl

\* line 196: if gap[1] > gap_limit
IsLongGap(gap, gl) == gap.count > gl

\* lines 196-223 with the earliest record above 100 restored (iloc[0])
MissingOneGap_first_record(s, frame, gap) ==
    LET n        == Len(s)
        end_idx  == gap.pos + gap.count
        has_end  == end_idx < n
        end_t    == s[end_idx + 1].t
        prev     == sort_index(SelectSeq(frame,
                        LAMBDA r : has_end /\ r.t <= end_t /\ Gt(r.Value, 100)))
        restored == [prev[1] EXCEPT
                        !.t = end_t,
                        !.Details = [kind |-> "END", a |-> prev[1].t,
                                     b |-> 0, lim |-> <<>>]]
        frame1   == IF has_end THEN sort_index(SetRow(frame, restored)) ELSE frame
        last_t   == s[end_idx].t
        frame2   == SelectSeq(frame1, LAMBDA r : ~(r.t > gap.t /\ r.t <= last_t))
        gaprow(old) == [old EXCEPT
                        !.Value = 100,
                        !.Code = <<"GAP">>,
                        !.Details = [kind |-> "GAP", a |-> end_t - gap.t,
                                     b |-> 0, lim |-> <<>>]]
        frame3   == IF gap.t \in Labels(frame2)
                    THEN [i \in 1..Len(frame2) |->
                            IF frame2[i].t = gap.t THEN gaprow(frame2[i]) ELSE frame2[i]]
                    ELSE Append(frame2, gaprow(NaNRow(gap.t)))
    IN  IF has_end /\ Len(prev) = 0
        THEN [err |-> "IndexError", frame |-> <<>>]
        ELSE IF ~has_end
        THEN [err |-> "IndexError", frame |-> <<>>]
        ELSE [err |-> "none", frame |-> sort_index(frame3)]

\* lines 196-223: one gap longer than gap_limit
MissingOneGap(s, frame, gap) ==
    LET n        == Len(s)
        end_idx  == gap.pos + gap.count
        has_end  == end_idx < n
        end_t    == s[end_idx + 1].t
        prev     == sort_index(SelectSeq(frame,
                        LAMBDA r : has_end /\ r.t <= end_t /\ Gt(r.Value, 100)))
        restored == [prev[Len(prev)] EXCEPT
                        !.t = end_t,
                        !.Details = [kind |-> "END", a |-> prev[Len(prev)].t,
                                     b |-> 0, lim |-> <<>>]]
        frame1   == IF has_end THEN sort_index(SetRow(frame, restored)) ELSE frame
        last_t   == s[end_idx].t
        frame2   == SelectSeq(frame1, LAMBDA r : ~(r.t > gap.t /\ r.t <= last_t))
        gaprow(old) == [old EXCEPT
                        !.Value = 100,
                        !.Code = <<"GAP">>,
                        !.Details = [kind |-> "GAP", a |-> end_t - gap.t,
                                     b |-> 0, lim |-> <<>>]]
        frame3   == IF gap.t \in Labels(frame2)
                    THEN [i \in 1..Len(frame2) |->
                            IF frame2[i].t = gap.t THEN gaprow(frame2[i]) ELSE frame2[i]]
                    ELSE Append(frame2, gaprow(NaNRow(gap.t)))
    IN  IF has_end /\ Len(prev) = 0
        THEN [err |-> "IndexError", frame |-> <<>>]
        ELSE IF ~has_end
        THEN [err |-> "IndexError", frame |-> <<>>]
        ELSE [err |-> "none", frame |-> sort_index(frame3)]

RECURSIVE MissingLoop(_, _, _, _, _)
MissingLoop(s, frame, gl, gaps, k) ==
    IF k > Len(gaps) THEN [err |-> "none", frame |-> sort_index(frame)]
    ELSE IF gaps[k].count > gl
    THEN LET one == MissingOneGap(s, frame, gaps[k])
         IN  IF one.err # "none" THEN one
             ELSE MissingLoop(s, one.frame, gl, gaps, k + 1)
    ELSE MissingLoop(s, frame, gl, gaps, k + 1)

missing_data_quality_code(std_series, qc_data, gl) ==
    MissingLoop(std_series, qc_data, gl, gap_finder(std_series), 1)

-----------------------------------------------------------------------------
(* evaluator.py: ceiling clamp *)

\* line 454 with max_qc taken as the lower bound
clip_lower(v, m) == IF Lt(v, m) THEN m ELSE v

\* Series.clip(np.NaN, max_qc): no lower bound; no bound at all for NaN
clip(v, m) == IF Gt(v, m) THEN m ELSE v

\* element-wise != : NaN differs from everything, itself included
Ne(x, y) == IsNaN(x) \/ IsNaN(y) \/ x # y

\* lines 454-465 with the records at max_qc marked as well (>= for the
\* comparison of line 456)
max_qc_limiter_ge(qc_data, m) ==
    LET diff_idxs == {qc_data[i].t : i \in {j \in 1..Len(qc_data) :
                            \/ Ne(qc_data[j].Value, clip(qc_data[j].Value, m))
                            \/ qc_data[j].Value = m}}
        lim(r) == [r EXCEPT
                     !.Code = IF r.Code = NaNCode THEN NaNCode
                              ELSE Append(r.Code, "LIM"),
                     !.Details = IF r.Details.kind = "NaN" THEN r.Details
                                 ELSE [r.Details EXCEPT !.lim = Append(@, m)]]
    IN  [i \in 1..Len(qc_data) |->
            [(IF qc_data[i].t \in diff_idxs THEN lim(qc_data[i]) ELSE qc_data[i])
                EXCEPT !.Value = clip(qc_data[i].Value, m)]]

max_qc_limiter(qc_data, m) ==
    LET diff_idxs == {qc_data[i].t : i \in {j \in 1..Len(qc_data) :
                            Ne(qc_data[j].Value, clip(qc_data[j].Value, m))}}
        lim(r) == [r EXCEPT
                     !.Code = IF r.Code = NaNCode THEN NaNCode
                              ELSE Append(r.Code, "LIM"),
                     !.Details = IF r.Details.kind = "NaN" THEN r.Details
                                 ELSE [r.Details EXCEPT !.lim = Append(@, m)]]
    IN  [i \in 1..Len(qc_data) |->
            [(IF qc_data[i].t \in diff_idxs THEN lim(qc_data[i]) ELSE qc_data[i])
                EXCEPT !.Value = clip(qc_data[i].Value, m)]]

-----------------------------------------------------------------------------
(* evaluator.py: filter of the logged data by quality code *)

IsIncreasing(idx) == \A i \in 1..(Len(idx) - 1) : idx[i] < idx[i + 1]

\* line 316 with method="bfill": the record that follows the sample decides
base_data_qc_filter_bfill(base_series_arg, qc_filter) ==
    IF ~IsIncreasing(Index(qc_filter))
    THEN [err |-> "ValueError", series |-> <<>>]
    ELSE LET fill(t) ==
                 LET nxt == {i \in 1..Len(qc_filter) : qc_filter[i].t >= t}
                 IN  IF nxt = {} THEN FALSE
                     ELSE qc_filter[CHOOSE i \in nxt : \A j \in nxt : i <= j].v
         IN  [err |-> "none",
              series |-> SelectSeq(base_series_arg, LAMBDA r : fill(r.t))]

\* lines 316-317: qc_filter.reindex(base_series.index, method="ffill") takes
\* for each sample the last filter row at or before it, NaN (filled with
\* False) when there is none; reindex refuses an index that is not
\* increasing or holds a label twice
base_data_qc_filter(base_series_arg, qc_filter) ==
    IF ~IsIncreasing(Index(qc_filter))
    THEN [err |-> "ValueError", series |-> <<>>]
    ELSE LET fill(t) ==
                 LET pad == {i \in 1..Len(qc_filter) : qc_filter[i].t <= t}
                 IN  IF pad = {} THEN FALSE
                     ELSE qc_filter[CHOOSE i \in pad : \A j \in pad : j <= i].v
         IN  [err |-> "none",
              series |-> SelectSeq(base_series_arg, LAMBDA r : fill(r.t))]

\* line 341: qc_series == target_qc, False for a NaN grade
base_data_meets_qc(base_series_arg, qc_series, target_qc) ==
    base_data_qc_filter(base_series_arg,
        [i \in 1..Len(qc_series) |->
            [t |-> qc_series[i].t,
             v |-> (~IsNaN(qc_series[i].Value) /\ qc_series[i].Value = target_qc)]])

-----------------------------------------------------------------------------
(* Inputs *)

\* logged samples lie three months apart, the first at the epoch
SampleTime(i) == (i - 1) * Months(3)

LoggedSeries(values) ==
    {[i \in 1..NumSamples |-> [t |-> SampleTime(i), v |-> f[i]]] :
        f \in [1..NumSamples -> values]}

\* every increasing check series with 0..MaxChecks checks at the given times
CheckSeriesOver(times, values) ==
    UNION {{[k \in 1..Cardinality(T) |->
                [t |-> SetToSortedSeq(T)[k], v |-> f[SetToSortedSeq(T)[k]]]] :
            f \in [T -> values]} :
           T \in {U \in SUBSET times : Cardinality(U) <= MaxChecks}}

OnGrid(offsets) ==
    {SampleTime(i) + d : i \in 1..NumSamples, d \in offsets}

InRange(times) == {t \in times : t >= SampleTime(1) /\ t <= SampleTime(NumSamples)}

\* Measurement(qc_500_limit=5, qc_600_limit=1)
ScenarioEvaluator == [qc_500_limit |-> 5, qc_600_limit |-> 1]

-----------------------------------------------------------------------------
(* evaluator.quality_encoder, called directly or by Processor.quality_encoder *)

\* lines 496-500 with the gap fold-in ahead of the downgrade
quality_encoder_order_gaps_first ==
    << "check_data_quality_code", "missing_data_quality_code",
       "bulk_downgrade_out_of_validation", "max_qc_limiter" >>

\* lines 496-500: the calls of quality_encoder, in program order
quality_encoder_order ==
    << "check_data_quality_code", "bulk_downgrade_out_of_validation",
       "missing_data_quality_code", "max_qc_limiter" >>

After(stage) ==
    LET i == CHOOSE j \in 1..Len(quality_encoder_order) : quality_encoder_order[j] = stage
    IN  IF i < Len(quality_encoder_order) THEN quality_encoder_order[i + 1] ELSE "done"

\* line 496 handing gap_limit on
quality_encoder_check_with_gap_limit(base, cs, ev, gl) ==
    check_data_quality_code(base, cs, ev, gl)

\* line 496: check_data_quality_code(base_series, check_series, qc_evaluator)
quality_encoder_check(base, cs, ev, gl) ==
    check_data_quality_code(base, cs, ev, DefaultGapLimit)

\* line 497: bulk_downgrade_out_of_validation(qc_series, check_series)
quality_encoder_rules(supplied) == DefaultIntervalDict

Init ==
    /\ series \in LoggedSeries({NaN, 10})
    /\ check_series \in CheckSeriesOver(InRange(OnGrid({0, 4000})), {10, 12}) \ {<<>>}
    /\ qc_evaluator = ScenarioEvaluator
    /\ gap_limit \in {1, 3600}
    /\ max_qc \in {NaN, 500}
    /\ interval_dict \in
          {[caller |-> "direct", rules |-> <<>>],
           [caller |-> "Processor", rules |-> <<>>],
           [caller |-> "Processor",
            rules |-> <<[max_interval |-> Months(1), downgraded_qc |-> 400]>>]}
    /\ qc_frame = <<>>
    /\ pc = "call"
    /\ rule_idx = 1
    /\ steps = <<>>
    /\ err = "none"
    /\ warned = FALSE
    /\ base_datum = NaN
    /\ check_datum = NaN
    /\ qc_value = NaN
    /\ datum_type = "numpy.float64"
    /\ target_time = NaN
    /\ ret = <<>>

Raise(e) ==
    /\ err' = e
    /\ pc' = "raised"
    /\ qc_frame' = <<>>

\* processor.py lines 901-908 pass interval_dict=...; the signature at
\* evaluator.py lines 468-474 has no such parameter
QE_Call ==
    /\ pc = "call"
    /\ IF interval_dict.caller = "Processor"
       THEN Raise("TypeError")
       ELSE /\ pc' = quality_encoder_order[1]
            /\ UNCHANGED <<err, qc_frame>>
    /\ UNCHANGED <<series, check_series, qc_evaluator, gap_limit, max_qc,
                   interval_dict, rule_idx, steps, warned>>
    /\ UNCHANGED gradeVars
    /\ UNCHANGED callVars

QE_Check ==
    /\ pc = "check_data_quality_code"
    /\ LET r == quality_encoder_check(series, check_series, qc_evaluator, gap_limit)
       IN  /\ warned' = r.warned
           /\ IF r.err # "none"
              THEN Raise(r.err) /\ UNCHANGED steps
              ELSE /\ qc_frame' = r.frame
                   /\ pc' = After(pc)
                   /\ steps' = Append(steps, "check_data_quality_code")
                   /\ UNCHANGED err
    /\ UNCHANGED <<series, check_series, qc_evaluator, gap_limit, max_qc,
                   interval_dict, rule_idx>>
    /\ UNCHANGED gradeVars
    /\ UNCHANGED callVars

\* one iteration of the loop of bulk_downgrade_out_of_validation (lines 542-545)
QE_Downgrade ==
    /\ pc = "bulk_downgrade_out_of_validation"
    /\ LET rules == quality_encoder_rules(interval_dict.rules)
           rule  == rules[rule_idx]
           r     == single_downgrade_out_of_validation(
                        qc_frame, check_series, rule.max_interval,
                        rule.downgraded_qc, TRUE)
       IN  IF r.err # "none"
           THEN Raise(r.err) /\ UNCHANGED <<steps, rule_idx>>
           ELSE /\ qc_frame' = r.frame
                /\ rule_idx' = rule_idx + 1
                /\ pc' = IF rule_idx = Len(rules) THEN After(pc) ELSE pc
                /\ steps' = Append(steps, "single_downgrade_out_of_validation")
                /\ UNCHANGED err
    /\ UNCHANGED <<series, check_series, qc_evaluator, gap_limit, max_qc,
                   interval_dict, warned>>
    /\ UNCHANGED gradeVars
    /\ UNCHANGED callVars

QE_Missing ==
    /\ pc = "missing_data_quality_code"
    /\ LET r == missing_data_quality_code(series, qc_frame, gap_limit)
       IN  IF r.err # "none"
           THEN Raise(r.err) /\ UNCHANGED steps
           ELSE /\ qc_frame' = r.frame
                /\ pc' = After(pc)
                /\ steps' = Append(steps, "missing_data_quality_code")
                /\ UNCHANGED err
    /\ UNCHANGED <<series, check_series, qc_evaluator, gap_limit, max_qc,
                   interval_dict, rule_idx, warned>>
    /\ UNCHANGED gradeVars
    /\ UNCHANGED callVars

QE_Clamp ==
    /\ pc = "max_qc_limiter"
    /\ qc_frame' = max_qc_limiter(qc_frame, max_qc)
    /\ pc' = After(pc)
    /\ steps' = Append(steps, "max_qc_limiter")
    /\ UNCHANGED <<series, check_series, qc_evaluator, gap_limit, max_qc,
                   interval_dict, rule_idx, err, warned>>
    /\ UNCHANGED gradeVars
    /\ UNCHANGED callVars

Next ==
    \/ QE_Call
    \/ QE_Check
    \/ QE_Downgrade
    \/ QE_Missing
    \/ QE_Clamp

Spec == Init /\ [][Next]_vars

-----------------------------------------------------------------------------
(* The functions of evaluator.py called one by one, with any arguments *)

OpsSamples == 3

OpsSeries ==
    {[i \in 1..OpsSamples |-> [t |-> SampleTime(i), v |-> f[i]]] :
        f \in [1..OpsSamples -> {NaN, 12, 16}]}

OpsCheckTimes ==
    {t \in {SampleTime(i) + d : i \in 1..OpsSamples, d \in {0, 4000, 10800}} :
        t <= SampleTime(OpsSamples)}
    \cup {SampleTime(1) - 4000, SampleTime(OpsSamples) + 4000}

OpsRules ==
    {[max_interval |-> Months(2), downgraded_qc |-> 500],
     [max_interval |-> Months(4), downgraded_qc |-> 400]}

InitOps ==
    /\ series \in OpsSeries
    /\ check_series \in CheckSeriesOver(OpsCheckTimes, {12})
    /\ qc_evaluator = ScenarioEvaluator
    /\ gap_limit \in {3600, DefaultGapLimit}
    /\ max_qc = NaN
    /\ interval_dict = [caller |-> "direct", rules |-> <<>>]
    /\ qc_frame = <<>>
    /\ pc = "call"
    /\ rule_idx = 1
    /\ steps = <<>>
    /\ err = "none"
    /\ warned = FALSE
    /\ base_datum = NaN
    /\ check_datum = NaN
    /\ qc_value = NaN
    /\ datum_type = "numpy.float64"
    /\ target_time = NaN
    /\ ret = <<>>

Op_check_data_quality_code ==
    /\ pc = "call"
    /\ LET r == check_data_quality_code(series, check_series, qc_evaluator, gap_limit)
       IN  /\ warned' = r.warned
           /\ IF r.err # "none"
              THEN Raise(r.err) /\ UNCHANGED steps
              ELSE /\ qc_frame' = r.frame
                   /\ pc' = "checked"
                   /\ steps' = Append(steps, "check_data_quality_code")
                   /\ UNCHANGED err
    /\ UNCHANGED <<series, check_series, qc_evaluator, gap_limit, max_qc,
                   interval_dict, rule_idx>>
    /\ UNCHANGED gradeVars
    /\ UNCHANGED callVars

\* rule_idx - 1 passes have been made
Op_single_downgrade_out_of_validation ==
    /\ pc = "checked"
    /\ Len(check_series) > 0
    /\ rule_idx <= MaxPasses
    /\ \E rule \in OpsRules, day_end_rounding \in BOOLEAN :
          LET r == single_downgrade_out_of_validation(
                       qc_frame, check_series, rule.max_interval,
                       rule.downgraded_qc, day_end_rounding)
          IN  IF r.err # "none"
              THEN Raise(r.err) /\ UNCHANGED <<steps, rule_idx>>
              ELSE /\ qc_frame' = r.frame
                   /\ rule_idx' = rule_idx + 1
                   /\ steps' = Append(steps, "single_downgrade_out_of_validation")
                   /\ UNCHANGED <<pc, err>>
    /\ UNCHANGED <<series, check_series, qc_evaluator, gap_limit, max_qc,
                   interval_dict, warned>>
    /\ UNCHANGED gradeVars
    /\ UNCHANGED callVars

NextOps ==
    \/ Op_check_data_quality_code
    \/ Op_single_downgrade_out_of_validation

SpecOps == InitOps /\ [][NextOps]_vars

-----------------------------------------------------------------------------
(* Measurement.find_qc called on any pair of data *)

Datums == (0 - MaxDatum)..MaxDatum \cup {NaN}

Evaluators ==
    {[qc_500_limit |-> 5, qc_600_limit |-> 1],
     [qc_500_limit |-> 3, qc_600_limit |-> 2],
     [qc_500_limit |-> 2, qc_600_limit |-> 4]}

InitGrade ==
    /\ series = <<>>
    /\ check_series = <<>>
    /\ qc_evaluator \in Evaluators
    /\ gap_limit = 0
    /\ max_qc = NaN
    /\ interval_dict = [caller |-> "direct", rules |-> <<>>]
    /\ qc_frame = <<>>
    /\ pc = "call"
    /\ rule_idx = 1
    /\ steps = <<>>
    /\ err = "none"
    /\ warned = FALSE
    /\ base_datum \in Datums
    /\ check_datum \in Datums
    /\ qc_value = NaN
    /\ datum_type = "numpy.float64"
    /\ target_time = NaN
    /\ ret = <<>>

Grade_find_qc ==
    /\ pc = "call"
    /\ qc_value' = Measurement_find_qc(qc_evaluator, base_datum, check_datum)
    /\ pc' = "done"
    /\ UNCHANGED <<series, check_series, qc_evaluator, gap_limit, max_qc,
                   interval_dict, qc_frame, rule_idx, steps, err, warned>>
    /\ UNCHANGED <<base_datum, check_datum>>
    /\ UNCHANGED callVars

NextGrade ==
    \/ Grade_find_qc

SpecGrade == InitGrade /\ [][NextGrade]_vars

-----------------------------------------------------------------------------
(* find_qc of either grading model, called on two base values and one check *)

\* TwoLevelMeasurement(qc_500_limit, qc_600_limit, qc_500_percent,
\*                     qc_600_percent, limit_percent_threshold)
TwoLevelEvaluators ==
    {[qc_500_limit |-> 3, qc_600_limit |-> 2, qc_500_percent |-> 60,
      qc_600_percent |-> 30, limit_percent_threshold |-> 4],
     [qc_500_limit |-> 2, qc_600_limit |-> 1, qc_500_percent |-> 50,
      qc_600_percent |-> 20, limit_percent_threshold |-> 3],
     [qc_500_limit |-> 3, qc_600_limit |-> 1, qc_500_percent |-> 100,
      qc_600_percent |-> 40, limit_percent_threshold |-> 0]}

DatumTypes == {"numpy.float64", "float"}

InitFindQc ==
    /\ series = <<>>
    /\ check_series = <<>>
    /\ qc_evaluator \in Evaluators \cup TwoLevelEvaluators
    /\ gap_limit = 0
    /\ max_qc = NaN
    /\ interval_dict = [caller |-> "direct", rules |-> <<>>]
    /\ qc_frame = <<>>
    /\ pc = "call"
    /\ rule_idx = 1
    /\ steps = <<>>
    /\ err = "none"
    /\ warned = FALSE
    /\ base_datum \in Datums
    /\ check_datum \in Datums
    /\ qc_value = NaN
    /\ datum_type \in DatumTypes
    /\ target_time = NaN
    /\ ret = <<>>

FindQc_first ==
    /\ pc = "call"
    /\ LET r == find_qc(qc_evaluator, base_datum, check_datum, datum_type)
       IN  /\ qc_value' = r.qc
           /\ err' = r.err
    /\ pc' = "again"
    /\ UNCHANGED <<series, check_series, qc_evaluator, gap_limit, max_qc,
                   interval_dict, qc_frame, rule_idx, steps, warned>>
    /\ UNCHANGED <<base_datum, check_datum, datum_type, target_time, ret>>

\* the same object grades another base value against the same check value;
\* ret keeps the first call
FindQc_second ==
    /\ pc = "again"
    /\ \E b \in Datums :
          LET r == find_qc(qc_evaluator, b, check_datum, datum_type)
          IN  /\ base_datum' = b
              /\ qc_value' = r.qc
              /\ err' = r.err
    /\ ret' = [base_datum |-> base_datum, qc_value |-> qc_value, err |-> err]
    /\ pc' = "done"
    /\ UNCHANGED <<series, check_series, qc_evaluator, gap_limit, max_qc,
                   interval_dict, qc_frame, rule_idx, steps, warned>>
    /\ UNCHANGED <<check_datum, datum_type, target_time>>

NextFindQc ==
    \/ FindQc_first
    \/ FindQc_second

SpecFindQc == InitFindQc /\ [][NextFindQc]_vars

-----------------------------------------------------------------------------
(* gap_finder and small_gap_closer called on any series *)

GapSamples == 5

GapSeries ==
    {[i \in 1..GapSamples |-> [t |-> SampleTime(i), v |-> f[i]]] :
        f \in [1..GapSamples -> {NaN, 10, 12}]}

InitGaps ==
    /\ series \in GapSeries
    /\ check_series = <<>>
    /\ qc_evaluator = ScenarioEvaluator
    /\ gap_limit \in 0..3
    /\ max_qc = NaN
    /\ interval_dict = [caller |-> "direct", rules |-> <<>>]
    /\ qc_frame = <<>>
    /\ pc = "call"
    /\ rule_idx = 1
    /\ steps = <<>>
    /\ err = "none"
    /\ warned = FALSE
    /\ base_datum = NaN
    /\ check_datum = NaN
    /\ qc_value = NaN
    /\ datum_type = "numpy.float64"
    /\ target_time = NaN
    /\ ret = <<>>

Gaps_gap_finder ==
    /\ pc = "call"
    /\ ret' = [fn |-> "gap_finder", out |-> gap_finder(series)]
    /\ pc' = "done"
    /\ UNCHANGED <<series, check_series, qc_evaluator, gap_limit, max_qc,
                   interval_dict, qc_frame, rule_idx, steps, err, warned>>
    /\ UNCHANGED gradeVars
    /\ UNCHANGED <<datum_type, target_time>>

Gaps_small_gap_closer ==
    /\ pc = "call"
    /\ ret' = [fn |-> "small_gap_closer", out |-> small_gap_closer(series, gap_limit)]
    /\ pc' = "done"
    /\ UNCHANGED <<series, check_series, qc_evaluator, gap_limit, max_qc,
                   interval_dict, qc_frame, rule_idx, steps, err, warned>>
    /\ UNCHANGED gradeVars
    /\ UNCHANGED <<datum_type, target_time>>

NextGaps ==
    \/ Gaps_gap_finder
    \/ Gaps_small_gap_closer

SpecGaps == InitGaps /\ [][NextGaps]_vars

-----------------------------------------------------------------------------
(* single_downgrade_out_of_validation called on a fresh assignment, with     *)
(* any default rule, with and without day-end rounding                       *)

DowngradeSeries ==
    {[i \in 1..OpsSamples |-> [t |-> SampleTime(i), v |-> 12]]}

DowngradeCheckTimes ==
    {0, 4000, Months(1), Months(2), Months(2) + 5000, Months(3), Months(6)}

InitDowngrade ==
    /\ series \in DowngradeSeries
    /\ check_series \in CheckSeriesOver(DowngradeCheckTimes, {12, 14}) \ {<<>>}
    /\ qc_evaluator = ScenarioEvaluator
    /\ gap_limit \in {DefaultGapLimit, Months(2)}
    /\ max_qc = NaN
    /\ interval_dict = [caller |-> "direct", rules |-> <<>>]
    /\ qc_frame = <<>>
    /\ pc = "call"
    /\ rule_idx = 1
    /\ steps = <<>>
    /\ err = "none"
    /\ warned = FALSE
    /\ base_datum = NaN
    /\ check_datum = NaN
    /\ qc_value = NaN
    /\ datum_type = "numpy.float64"
    /\ target_time = NaN
    /\ ret = <<>>

\* rule_idx - 1 passes have been made; ret keeps the arguments of the pass
Downgrade_single ==
    /\ pc = "checked"
    /\ rule_idx <= MaxPasses
    /\ \E k \in 1..Len(DefaultIntervalDict), day_end_rounding \in BOOLEAN :
          LET rule == DefaultIntervalDict[k]
              r == single_downgrade_out_of_validation(
                       qc_frame, check_series, rule.max_interval,
                       rule.downgraded_qc, day_end_rounding)
          IN  /\ ret' = [fn |-> "single_downgrade_out_of_validation",
                         qc_frame |-> qc_frame,
                         max_interval |-> rule.max_interval,
                         downgraded_qc |-> rule.downgraded_qc,
                         day_end_rounding |-> day_end_rounding]
              /\ IF r.err # "none"
                 THEN Raise(r.err) /\ UNCHANGED <<steps, rule_idx>>
                 ELSE /\ qc_frame' = r.frame
                      /\ rule_idx' = rule_idx + 1
                      /\ steps' = Append(steps, "single_downgrade_out_of_validation")
                      /\ UNCHANGED <<pc, err>>
    /\ UNCHANGED <<series, check_series, qc_evaluator, gap_limit, max_qc,
                   interval_dict, warned>>
    /\ UNCHANGED gradeVars
    /\ UNCHANGED <<datum_type, target_time>>

NextDowngrade ==
    \/ Op_check_data_quality_code
    \/ Downgrade_single

SpecDowngrade == InitDowngrade /\ [][NextDowngrade]_vars

-----------------------------------------------------------------------------
(* max_qc_limiter called twice on a frame the earlier functions returned *)

ClampSeries ==
    {[i \in 1..OpsSamples |-> [t |-> SampleTime(i), v |-> f[i]]] :
        f \in [1..OpsSamples -> {NaN, 12, 16}]}

ClampCheckTimes ==
    {t \in {SampleTime(i) + d : i \in 1..OpsSamples, d \in {0, 4000}} :
        t <= SampleTime(OpsSamples)}

InitClamp ==
    /\ series \in ClampSeries
    /\ check_series \in CheckSeriesOver(ClampCheckTimes, {12})
    /\ qc_evaluator = ScenarioEvaluator
    /\ gap_limit \in {0, 1}
    /\ max_qc \in {NaN, 400, 500}
    /\ interval_dict = [caller |-> "direct", rules |-> <<>>]
    /\ qc_frame = <<>>
    /\ pc = quality_encoder_order[1]
    /\ rule_idx = 1
    /\ steps = <<>>
    /\ err = "none"
    /\ warned = FALSE
    /\ base_datum = NaN
    /\ check_datum = NaN
    /\ qc_value = NaN
    /\ datum_type = "numpy.float64"
    /\ target_time = NaN
    /\ ret = <<>>

\* the first call, on the frame as check_data_quality_code, a downgrade
\* pass or missing_data_quality_code returned it; ret keeps the frame passed
Clamp_first ==
    /\ pc \in Range(quality_encoder_order) \ {quality_encoder_order[1]}
    /\ ret' = [fn |-> "max_qc_limiter", before |-> qc_frame,
               once |-> max_qc_limiter(qc_frame, max_qc)]
    /\ qc_frame' = max_qc_limiter(qc_frame, max_qc)
    /\ pc' = "clamped"
    /\ steps' = Append(steps, "max_qc_limiter")
    /\ UNCHANGED <<series, check_series, qc_evaluator, gap_limit, max_qc,
                   interval_dict, rule_idx, err, warned>>
    /\ UNCHANGED gradeVars
    /\ UNCHANGED <<datum_type, target_time>>

\* the second call, on the frame the first call returned, same max_qc
Clamp_second ==
    /\ pc = "clamped"
    /\ qc_frame' = max_qc_limiter(qc_frame, max_qc)
    /\ pc' = "again"
    /\ steps' = Append(steps, "max_qc_limiter")
    /\ UNCHANGED <<series, check_series, qc_evaluator, gap_limit, max_qc,
                   interval_dict, rule_idx, err, warned>>
    /\ UNCHANGED gradeVars
    /\ UNCHANGED callVars

NextClamp ==
    \/ QE_Check
    \/ QE_Downgrade
    \/ QE_Missing
    \/ Clamp_first
    \/ Clamp_second

SpecClamp == InitClamp /\ [][NextClamp]_vars

-----------------------------------------------------------------------------
(* find_nearest_time and find_nearest_valid_time called on any series *)

NearSamples == 4

NearSeries ==
    {[i \in 1..NearSamples |-> [t |-> SampleTime(i), v |-> f[i]]] :
        f \in [1..NearSamples -> {NaN, 10}]}

\* on a sample, near it, a third of the way, half way and two thirds of the
\* way to the next sample, and just outside the span
NearTimes ==
    {t \in {SampleTime(i) + d : i \in 1..NearSamples,
                                d \in {0, 4000, Months(1), 45 * Day, Months(2)}} :
        t <= SampleTime(NearSamples)}
    \cup {SampleTime(1) - 4000, SampleTime(NearSamples) + 4000}

InitNearest ==
    /\ series \in NearSeries
    /\ check_series = <<>>
    /\ qc_evaluator = ScenarioEvaluator
    /\ gap_limit = 0
    /\ max_qc = NaN
    /\ interval_dict = [caller |-> "direct", rules |-> <<>>]
    /\ qc_frame = <<>>
    /\ pc = "call"
    /\ rule_idx = 1
    /\ steps = <<>>
    /\ err = "none"
    /\ warned = FALSE
    /\ base_datum = NaN
    /\ check_datum = NaN
    /\ qc_value = NaN
    /\ datum_type = "numpy.float64"
    /\ target_time \in NearTimes
    /\ ret = <<>>

Nearest_find_nearest_time ==
    /\ pc = "call"
    /\ LET r == find_nearest_time(series, target_time)
       IN  /\ ret' = [fn |-> "find_nearest_time", t |-> r.t]
           /\ IF r.err # "none"
              THEN Raise(r.err)
              ELSE pc' = "done" /\ UNCHANGED <<err, qc_frame>>
    /\ UNCHANGED <<series, check_series, qc_evaluator, gap_limit, max_qc,
                   interval_dict, rule_idx, steps, warned>>
    /\ UNCHANGED gradeVars
    /\ UNCHANGED <<datum_type, target_time>>

Nearest_find_nearest_valid_time ==
    /\ pc = "call"
    /\ LET r == find_nearest_valid_time(series, target_time)
       IN  /\ ret' = [fn |-> "find_nearest_valid_time", t |-> r.t]
           /\ IF r.err # "none"
              THEN Raise(r.err)
              ELSE pc' = "done" /\ UNCHANGED <<err, qc_frame>>
    /\ UNCHANGED <<series, check_series, qc_evaluator, gap_limit, max_qc,
                   interval_dict, rule_idx, steps, warned>>
    /\ UNCHANGED gradeVars
    /\ UNCHANGED <<datum_type, target_time>>

NextNearest ==
    \/ Nearest_find_nearest_time
    \/ Nearest_find_nearest_valid_time

SpecNearest == InitNearest /\ [][NextNearest]_vars

-----------------------------------------------------------------------------
(* base_data_meets_qc called with the frame quality_encoder returned *)

\* a logged series sampled monthly, from before the first record to after
\* the last; the value of a sample is its number
FilterBase ==
    [i \in 1..(3 * OpsSamples + 1) |-> [t |-> (i - 2) * Months(1), v |-> i]]

TargetGrades == {0, 100, 200, 400, 500, 600}

InitFilter ==
    /\ series \in ClampSeries
    /\ check_series \in CheckSeriesOver(ClampCheckTimes, {12})
    /\ qc_evaluator = ScenarioEvaluator
    /\ gap_limit \in {0, 1}
    /\ max_qc \in {NaN, 500}
    /\ interval_dict = [caller |-> "direct", rules |-> <<>>]
    /\ qc_frame = <<>>
    /\ pc = quality_encoder_order[1]
    /\ rule_idx = 1
    /\ steps = <<>>
    /\ err = "none"
    /\ warned = FALSE
    /\ base_datum = NaN
    /\ check_datum = NaN
    /\ qc_value = NaN
    /\ datum_type = "numpy.float64"
    /\ target_time = NaN
    /\ ret = <<>>

Filter_base_data_meets_qc ==
    /\ pc = "done"
    /\ \E target_qc \in TargetGrades :
          LET r == base_data_meets_qc(FilterBase, qc_frame, target_qc)
          IN  /\ ret' = [fn |-> "base_data_meets_qc", target_qc |-> target_qc,
                         series |-> r.series]
              /\ err' = r.err
    /\ pc' = "filtered"
    /\ UNCHANGED <<series, check_series, qc_evaluator, gap_limit, max_qc,
                   interval_dict, qc_frame, rule_idx, steps, warned>>
    /\ UNCHANGED gradeVars
    /\ UNCHANGED <<datum_type, target_time>>

NextFilter ==
    \/ QE_Check
    \/ QE_Downgrade
    \/ QE_Missing
    \/ QE_Clamp
    \/ Filter_base_data_meets_qc

SpecFilter == InitFilter /\ [][NextFilter]_vars

-----------------------------------------------------------------------------
(* missing_data_quality_code, one gap at a time, on the frame the check and  *)
(* the default downgrade passes returned                                     *)

MissSamples == 5

MissSeries ==
    {[i \in 1..MissSamples |-> [t |-> SampleTime(i), v |-> f[i]]] :
        f \in [1..MissSamples -> {NaN, 12}]}

MissCheckTimes ==
    {t \in {SampleTime(i) + d : i \in 1..MissSamples, d \in {0, 4000}} :
        t <= SampleTime(MissSamples)}

InitMissing ==
    /\ series \in MissSeries
    /\ check_series \in CheckSeriesOver(MissCheckTimes, {12})
    /\ qc_evaluator = ScenarioEvaluator
    /\ gap_limit \in {0, 1}
    /\ max_qc = NaN
    /\ interval_dict = [caller |-> "direct", rules |-> <<>>]
    /\ qc_frame = <<>>
    /\ pc = quality_encoder_order[1]
    /\ rule_idx = 1
    /\ steps = <<>>
    /\ err = "none"
    /\ warned = FALSE
    /\ base_datum = NaN
    /\ check_datum = NaN
    /\ qc_value = NaN
    /\ datum_type = "numpy.float64"
    /\ target_time = NaN
    /\ ret = <<>>

NoGap == [t |-> NaN, pos |-> 0, count |-> 0]

\* line 195: the gaps are found once, before the loop; ret keeps the frame
\* passed, the frame before the current gap, that gap and its number
Missing_call ==
    /\ pc = "missing_data_quality_code"
    /\ ret' = [fn |-> "missing_data_quality_code", input |-> qc_frame,
               before |-> qc_frame, gap |-> NoGap, k |-> 1]
    /\ pc' = "missing_loop"
    /\ UNCHANGED <<series, check_series, qc_evaluator, gap_limit, max_qc,
                   interval_dict, qc_frame, rule_idx, steps, err, warned>>
    /\ UNCHANGED gradeVars
    /\ UNCHANGED <<datum_type, target_time>>

\* lines 195-223: one iteration of the loop
Missing_gap ==
    /\ pc = "missing_loop"
    /\ ret.k <= Len(gap_finder(series))
    /\ LET gap == gap_finder(series)[ret.k]
           one == IF IsLongGap(gap, gap_limit)
                  THEN MissingOneGap(series, qc_frame, gap)
                  ELSE [err |-> "none", frame |-> qc_frame]
       IN  /\ ret' = [ret EXCEPT !.before = qc_frame, !.gap = gap, !.k = @ + 1]
           /\ IF one.err # "none"
              THEN Raise(one.err)
              ELSE /\ qc_frame' = one.frame
                   /\ UNCHANGED <<pc, err>>
    /\ UNCHANGED <<series, check_series, qc_evaluator, gap_limit, max_qc,
                   interval_dict, rule_idx, steps, warned>>
    /\ UNCHANGED gradeVars
    /\ UNCHANGED <<datum_type, target_time>>

\* line 225
Missing_return ==
    /\ pc = "missing_loop"
    /\ ret.k > Len(gap_finder(series))
    /\ qc_frame' = sort_index(qc_frame)
    /\ pc' = "returned"
    /\ steps' = Append(steps, "missing_data_quality_code")
    /\ UNCHANGED <<series, check_series, qc_evaluator, gap_limit, max_qc,
                   interval_dict, rule_idx, err, warned>>
    /\ UNCHANGED gradeVars
    /\ UNCHANGED callVars

NextMissing ==
    \/ QE_Check
    \/ QE_Downgrade
    \/ Missing_call
    \/ Missing_gap
    \/ Missing_return

SpecMissing == InitMissing /\ [][NextMissing]_vars

-----------------------------------------------------------------------------
(* single_downgrade_out_of_validation with three and more checks *)

DetailChecks == 3

\* every increasing check series with 1..n checks at the given times
CheckSeriesUpTo(times, value, n) ==
    {[k \in 1..Cardinality(T) |-> [t |-> SetToSortedSeq(T)[k], v |-> value]] :
        T \in {U \in SUBSET times : Cardinality(U) >= 1 /\ Cardinality(U) <= n}}

DetailCheckTimes == {0, Months(1), Months(2), Months(3), Months(6)}

InitDetail ==
    /\ series \in DowngradeSeries
    /\ check_series \in CheckSeriesUpTo(DetailCheckTimes, 12, DetailChecks)
    /\ qc_evaluator = ScenarioEvaluator
    /\ gap_limit \in {DefaultGapLimit, Months(2)}
    /\ max_qc = NaN
    /\ interval_dict = [caller |-> "direct", rules |-> <<>>]
    /\ qc_frame = <<>>
    /\ pc = "call"
    /\ rule_idx = 1
    /\ steps = <<>>
    /\ err = "none"
    /\ warned = FALSE
    /\ base_datum = NaN
    /\ check_datum = NaN
    /\ qc_value = NaN
    /\ datum_type = "numpy.float64"
    /\ target_time = NaN
    /\ ret = <<>>

SpecDetail == InitDetail /\ [][NextDowngrade]_vars

-----------------------------------------------------------------------------
(* evaluator.py: bulk_downgrade_out_of_validation over a whole interval_dict *)

\* lines 542-546 with the loop left at the first rule that inserted a record
RECURSIVE bulk_downgrade_out_of_validation_until_downgraded(_, _, _, _)
bulk_downgrade_out_of_validation_until_downgraded(frame, cs, rules, day_end_rounding) ==
    IF rules = <<>> THEN [err |-> "none", frame |-> frame]
    ELSE LET r == single_downgrade_out_of_validation(
                      frame, cs, rules[1].max_interval, rules[1].downgraded_qc,
                      day_end_rounding)
         IN  IF r.err # "none" THEN r
             ELSE IF Len(r.frame) > Len(frame) THEN r
             ELSE bulk_downgrade_out_of_validation_until_downgraded(
                      r.frame, cs, Tail(rules), day_end_rounding)

\* lines 542-546: rules is the interval_dict in its iteration order
RECURSIVE bulk_downgrade_out_of_validation(_, _, _, _)
bulk_downgrade_out_of_validation(frame, cs, rules, day_end_rounding) ==
    IF rules = <<>> THEN [err |-> "none", frame |-> frame]
    ELSE LET r == single_downgrade_out_of_validation(
                      frame, cs, rules[1].max_interval, rules[1].downgraded_qc,
                      day_end_rounding)
         IN  IF r.err # "none" THEN r
             ELSE bulk_downgrade_out_of_validation(
                      r.frame, cs, Tail(rules), day_end_rounding)

\* rules a caller may put in an interval_dict; the first and the third give
\* due dates on the same day
BulkRules ==
    {[max_interval |-> Months(2), downgraded_qc |-> 500],
     [max_interval |-> Months(4), downgraded_qc |-> 400],
     [max_interval |-> Months(2) - 5000, downgraded_qc |-> 200]}

\* the orderings of a set of rules
Orderings(S) ==
    {q \in [1..Cardinality(S) -> S] : \A i, j \in 1..Cardinality(S) : q[i] = q[j] => i = j}

BulkDicts == UNION {Orderings(S) : S \in SUBSET BulkRules \ {{}}}

InitBulk ==
    /\ series \in DowngradeSeries
    /\ check_series \in CheckSeriesUpTo(DetailCheckTimes, 12, DetailChecks)
    /\ qc_evaluator = ScenarioEvaluator
    /\ gap_limit \in {DefaultGapLimit, Months(2)}
    /\ max_qc = NaN
    /\ interval_dict \in {[caller |-> "direct", rules |-> q] : q \in BulkDicts}
    /\ qc_frame = <<>>
    /\ pc = "call"
    /\ rule_idx = 1
    /\ steps = <<>>
    /\ err = "none"
    /\ warned = FALSE
    /\ base_datum = NaN
    /\ check_datum = NaN
    /\ qc_value = NaN
    /\ datum_type = "numpy.float64"
    /\ target_time = NaN
    /\ ret = <<>>

\* the call with interval_dict, and the same call with the rules of
\* interval_dict in another order (ret.other)
Bulk_call ==
    /\ pc = "checked"
    /\ \E q \in Orderings(Range(interval_dict.rules)), day_end_rounding \in BOOLEAN :
          LET r == bulk_downgrade_out_of_validation(
                       qc_frame, check_series, interval_dict.rules, day_end_rounding)
          IN  /\ ret' = [fn |-> "bulk_downgrade_out_of_validation",
                         qc_frame |-> qc_frame,
                         order |-> q,
                         day_end_rounding |-> day_end_rounding,
                         other |-> bulk_downgrade_out_of_validation(
                                       qc_frame, check_series, q, day_end_rounding)]
              /\ IF r.err # "none"
                 THEN Raise(r.err) /\ UNCHANGED steps
                 ELSE /\ qc_frame' = r.frame
                      /\ pc' = "done"
                      /\ steps' = Append(steps, "bulk_downgrade_out_of_validation")
                      /\ UNCHANGED err
    /\ UNCHANGED <<series, check_series, qc_evaluator, gap_limit, max_qc,
                   interval_dict, rule_idx, warned, datum_type, target_time>>
    /\ UNCHANGED gradeVars

NextBulk == Op_check_data_quality_code \/ Bulk_call

SpecBulk == InitBulk /\ [][NextBulk]_vars

-----------------------------------------------------------------------------
(* The frame object handed to the quality-code operations, after the call *)

\* lines 458-463 write into qc_data itself and line 465 returns that object
max_qc_limiter_argument(qc_data, m) == max_qc_limiter(qc_data, m)

\* lines 202-205 write the restored record into the caller's frame in the
\* first iteration that reaches them; line 206 (or line 215, when the gap
\* runs to the end) rebinds qc_data to a new frame, which takes every later
\* write
missing_data_quality_code_argument(std_series, qc_data, gl) ==
    LET gaps == gap_finder(std_series)
        long == {k \in 1..Len(gaps) : IsLongGap(gaps[k], gl)}
    IN  IF long = {} THEN qc_data
        ELSE LET k        == CHOOSE x \in long : \A y \in long : x <= y
                 gap      == gaps[k]
                 end_idx  == gap.pos + gap.count
                 has_end  == end_idx < Len(std_series)
                 end_t    == std_series[end_idx + 1].t
                 prev     == sort_index(SelectSeq(qc_data,
                                 LAMBDA r : has_end /\ r.t <= end_t /\ Gt(r.Value, 100)))
                 restored == [prev[Len(prev)] EXCEPT
                                 !.t = end_t,
                                 !.Details = [kind |-> "END", a |-> prev[Len(prev)].t,
                                              b |-> 0, lim |-> <<>>]]
             IN  IF has_end /\ Len(prev) > 0
                 THEN SetRow(qc_data, restored)
                 ELSE qc_data

\* line 606 rebinds qc_frame only when a record is inserted; otherwise line
\* 607 writes the final 0 into the caller's frame
single_downgrade_out_of_validation_argument(frame, cs, max_interval, downgraded_qc, day_end_rounding) ==
    LET r == single_downgrade_out_of_validation(
                 frame, cs, max_interval, downgraded_qc, day_end_rounding)
    IN  IF r.err = "none" /\ Len(r.frame) = Len(frame) THEN r.frame ELSE frame

ArgSeries ==
    {[i \in 1..OpsSamples |-> [t |-> SampleTime(i), v |-> f[i]]] :
        f \in [1..OpsSamples -> {NaN, 12}]}

InitArg ==
    /\ series \in ArgSeries
    /\ check_series \in CheckSeriesOver(ClampCheckTimes, {12})
    /\ qc_evaluator = ScenarioEvaluator
    /\ gap_limit = DefaultGapLimit
    /\ max_qc = NaN
    /\ interval_dict = [caller |-> "direct", rules |-> <<>>]
    /\ qc_frame = <<>>
    /\ pc = "call"
    /\ rule_idx = 1
    /\ steps = <<>>
    /\ err = "none"
    /\ warned = FALSE
    /\ base_datum = NaN
    /\ check_datum = NaN
    /\ qc_value = NaN
    /\ datum_type = "numpy.float64"
    /\ target_time = NaN
    /\ ret = <<>>

\* qc = f(qc, ...): ret keeps the frame before the call (before) and the
\* same object after the call (argument); qc_frame takes the returned value
ArgCall(fn, r, argument) ==
    /\ pc \in {"checked", "again"}
    /\ ret' = [fn |-> fn, before |-> qc_frame, argument |-> argument]
    /\ IF r.err # "none"
       THEN Raise(r.err) /\ UNCHANGED steps
       ELSE /\ qc_frame' = r.frame
            /\ pc' = IF pc = "checked" THEN "again" ELSE "done"
            /\ steps' = Append(steps, fn)
            /\ UNCHANGED err
    /\ UNCHANGED <<series, check_series, qc_evaluator, gap_limit, max_qc,
                   interval_dict, rule_idx, warned, datum_type, target_time>>
    /\ UNCHANGED gradeVars

Arg_max_qc_limiter ==
    \E m \in {400, 500} :
        ArgCall("max_qc_limiter",
                [err |-> "none", frame |-> max_qc_limiter(qc_frame, m)],
                max_qc_limiter_argument(qc_frame, m))

Arg_missing_data_quality_code ==
    \E gl \in {0, 1} :
        ArgCall("missing_data_quality_code",
                missing_data_quality_code(series, qc_frame, gl),
                missing_data_quality_code_argument(series, qc_frame, gl))

Arg_single_downgrade_out_of_validation ==
    \E k \in 1..Len(DefaultIntervalDict), day_end_rounding \in BOOLEAN :
        LET rule == DefaultIntervalDict[k]
        IN  ArgCall("single_downgrade_out_of_validation",
                    single_downgrade_out_of_validation(
                        qc_frame, check_series, rule.max_interval,
                        rule.downgraded_qc, day_end_rounding),
                    single_downgrade_out_of_validation_argument(
                        qc_frame, check_series, rule.max_interval,
                        rule.downgraded_qc, day_end_rounding))

NextArg ==
    \/ Op_check_data_quality_code
    \/ Arg_max_qc_limiter
    \/ Arg_missing_data_quality_code
    \/ Arg_single_downgrade_out_of_validation

SpecArg == InitArg /\ [][NextArg]_vars

-----------------------------------------------------------------------------
(* Properties *)

IsPrefix(a, b) == Len(a) <= Len(b) /\ \A i \in 1..Len(a) : a[i] = b[i]

HasTag(frame, tag) == \E i \in 1..Len(frame) : tag \in Range(frame[i].Code)

Passes(n) == [i \in 1..n |-> "single_downgrade_out_of_validation"]

ValidTimes(s) == {s[i].t : i \in {j \in 1..Len(s) : ~IsNaN(s[j].v)}}

\* distance from t to the nearest non-missing sample
NearestValidDistance(s, t) ==
    CHOOSE d \in {Abs(u - t) : u \in ValidTimes(s)} :
        \A e \in {Abs(u - t) : u \in ValidTimes(s)} : d <= e

\* a non-missing sample at that distance, the later one if there are two
NearestValid(s, t) ==
    CHOOSE u \in ValidTimes(s) :
        /\ Abs(u - t) = NearestValidDistance(s, t)
        /\ \A w \in ValidTimes(s) : Abs(w - t) = NearestValidDistance(s, t) => w <= u

\* the row that holds the grade computed at check k once the frame is
\* shifted; 0 when that grade is dropped (first check at the first sample)
GradeRow(s, cs, k) == IF cs[1].t = s[1].t THEN k - 1 ELSE k

Latest(frame) ==
    {i \in 1..Len(frame) : \A j \in 1..Len(frame) : frame[j].t <= frame[i].t}

FreshAssignment == steps = <<"check_data_quality_code">>

\* C1 (as amended): quality_encoder runs check_data_quality_code, then one
\* downgrade pass per default rule, then missing_data_quality_code, then
\* max_qc_limiter; no GAP record exists while the downgrade passes run and
\* no LIM tag exists before the clamp.
C1_DowngradeThenGapsThenClamp ==
    LET order == <<"check_data_quality_code">> \o Passes(Len(DefaultIntervalDict))
                 \o <<"missing_data_quality_code", "max_qc_limiter">>
    IN  /\ IsPrefix(steps, order)
        /\ pc = "done" => steps = order
        /\ pc = "bulk_downgrade_out_of_validation" => ~HasTag(qc_frame, "GAP")
        /\ pc # "done" => ~HasTag(qc_frame, "LIM")

C1_Witness ==
    /\ pc = "done"
    /\ HasTag(qc_frame, "GAP")
    /\ HasTag(qc_frame, "OOV")
    /\ HasTag(qc_frame, "LIM")

\* C1 (as claimed): the gap fold-in runs before the downgrade passes, so the
\* downgrade starts from a series the gap fold-in has already been through.
C1_GapsFoldedBeforeDowngrade ==
    /\ IsPrefix(steps, <<"check_data_quality_code", "missing_data_quality_code">>
                       \o Passes(Len(DefaultIntervalDict)) \o <<"max_qc_limiter">>)
    /\ pc = "bulk_downgrade_out_of_validation" =>
          "missing_data_quality_code" \in Range(steps)

\* C2: the last record of the series quality_encoder returns has grade 0.
C2_LastRecordPending ==
    pc = "done" => qc_frame[Len(qc_frame)].Value = 0

\* C6 (as amended): inside quality_encoder the check-matching tolerance is
\* always 10800 seconds, whatever gap_limit was passed: the comparison at a
\* check is graded 200 exactly when its nearest valid sample is 10800
\* seconds or more away, and by the grading model otherwise.
C6_DefaultTolerance ==
    FreshAssignment =>
        \A k \in 1..Len(check_series) :
            GradeRow(series, check_series, k) > 0 =>
                qc_frame[GradeRow(series, check_series, k)].Value =
                    IF NearestValidDistance(series, check_series[k].t) >= 10800
                    THEN 200
                    ELSE Measurement_find_qc(qc_evaluator,
                            ValueAt(series, NearestValid(series, check_series[k].t)),
                            check_series[k].v)

C6_Witness ==
    /\ FreshAssignment
    /\ gap_limit = 3600
    /\ \E k \in 1..Len(check_series) :
          /\ GradeRow(series, check_series, k) > 0
          /\ NearestValidDistance(series, check_series[k].t) = 4000
          /\ qc_frame[GradeRow(series, check_series, k)].Value \in {500, 600}

\* C6 (as claimed): a check whose nearest valid sample is gap_limit seconds
\* or more away is graded 200, gap_limit being the entry point's argument.
C6_SuppliedTolerance ==
    FreshAssignment =>
        \A k \in 1..Len(check_series) :
            (/\ GradeRow(series, check_series, k) > 0
             /\ NearestValidDistance(series, check_series[k].t) >= gap_limit)
            => qc_frame[GradeRow(series, check_series, k)].Value = 200

\* C7: a call that supplies interval_dict is accepted and downgrades with
\* the supplied rules only.
C7_SuppliedRulesApplied ==
    (interval_dict.caller = "Processor" /\ pc # "call") =>
        /\ err # "TypeError"
        /\ \A i \in 1..Len(qc_frame) :
              "OOV" \in Range(qc_frame[i].Code) =>
                  \E r \in Range(interval_dict.rules) :
                      qc_frame[i].Value = r.downgraded_qc

\* C3: after check_data_quality_code on a non-empty check series, and after
\* every downgrade pass, the record with the greatest timestamp has grade 0
\* and sits at the last check's timestamp.
C3_LatestRecordPending ==
    (pc = "checked" /\ Len(check_series) > 0) =>
        \A i \in Latest(qc_frame) :
            /\ qc_frame[i].Value = 0
            /\ qc_frame[i].t = check_series[Len(check_series)].t

C3_Witness ==
    /\ pc = "checked"
    /\ rule_idx > 1
    /\ HasTag(qc_frame, "OOV")

C8_OutOfRangeRaises ==
    (pc # "call" /\ Len(check_series) > 0) =>
        ((err = "KeyError: check data out of range" /\ qc_frame = <<>>)
         <=> (\/ check_series[1].t < series[1].t
              \/ check_series[Len(check_series)].t > series[Len(series)].t))

C8_Witness ==
    /\ pc = "raised"
    /\ err = "KeyError: check data out of range"
    /\ check_series[1].t >= series[1].t
    /\ check_series[Len(check_series)].t > series[Len(series)].t

\* C9: with an empty check series the call warns, raises nothing and returns
\* one record, at the first sample's timestamp, whose grade is NaN.
C9_EmptyCheckSeries ==
    (pc # "call" /\ Len(check_series) = 0) =>
        /\ err = "none"
        /\ warned
        /\ Len(qc_frame) = 1
        /\ qc_frame[1].t = series[1].t
        /\ qc_frame[1].Value \notin {0, 100, 200, 300, 400, 500, 600}

C9_Witness ==
    /\ pc = "checked"
    /\ Len(check_series) = 0
    /\ warned
    /\ IsNaN(qc_frame[1].Value)

\* C10: for numeric data Measurement.find_qc returns 600 below qc_600_limit,
\* else 500 below qc_500_limit, else 400; a difference equal to a limit gets
\* the worse grade.
C10_FlatModel ==
    (pc = "done" /\ ~IsNaN(base_datum) /\ ~IsNaN(check_datum)) =>
        LET d == Abs(base_datum - check_datum)
        IN  /\ qc_value \in {400, 500, 600}
            /\ qc_value = 600 <=> d < qc_evaluator.qc_600_limit
            /\ qc_value = 500 <=> (d >= qc_evaluator.qc_600_limit
                                   /\ d < qc_evaluator.qc_500_limit)
            /\ qc_value = 400 <=> (d >= qc_evaluator.qc_600_limit
                                   /\ d >= qc_evaluator.qc_500_limit)

C10_Witness ==
    /\ pc = "done"
    /\ ~IsNaN(base_datum)
    /\ ~IsNaN(check_datum)
    /\ Abs(base_datum - check_datum) = qc_evaluator.qc_600_limit
    /\ qc_value = 500

IsTwoLevel(self) == "limit_percent_threshold" \in DOMAIN self

OrderedThresholds(self) ==
    /\ self.qc_600_limit < self.qc_500_limit
    /\ IsTwoLevel(self) => self.qc_600_percent < self.qc_500_percent

\* both base values are graded by the same rule of the model
SameTier(self, b1, b2) ==
    IsTwoLevel(self) =>
        ((b1 < self.limit_percent_threshold) <=> (b2 < self.limit_percent_threshold))

BothGraded ==
    /\ pc = "done"
    /\ OrderedThresholds(qc_evaluator)
    /\ ret.err = "none" /\ err = "none"
    /\ ~IsNaN(ret.base_datum) /\ ~IsNaN(base_datum) /\ ~IsNaN(check_datum)

FlatGrade(self, base, check) ==
    IF Abs(base - check) < self.qc_600_limit THEN 600
    ELSE IF Abs(base - check) < self.qc_500_limit THEN 500
    ELSE 400

PercentGrade(self, base, check) ==
    IF Abs(base - check) * 100 < self.qc_600_percent * Abs(check) THEN 600
    ELSE IF Abs(base - check) * 100 < self.qc_500_percent * Abs(check) THEN 500
    ELSE 400

\* C12: TwoLevelMeasurement.find_qc grades by the flat limits exactly when
\* the magnitude of the base value is below limit_percent_threshold and by
\* the percentage limits otherwise, negative base values included.
C12_TierByMagnitude ==
    (/\ pc = "again"
     /\ IsTwoLevel(qc_evaluator)
     /\ ~IsNaN(base_datum) /\ ~IsNaN(check_datum) /\ check_datum # 0)
    => /\ err = "none"
       /\ qc_value =
             IF Abs(base_datum) < qc_evaluator.limit_percent_threshold
             THEN FlatGrade(qc_evaluator, base_datum, check_datum)
             ELSE PercentGrade(qc_evaluator, base_datum, check_datum)

\* C13: with a missing base or check value, and in the percentage tier with
\* a check value of 0, find_qc raises nothing and returns 400.
C13_UndefinedIs400 ==
    (/\ pc = "again"
     /\ \/ IsNaN(base_datum)
        \/ IsNaN(check_datum)
        \/ /\ IsTwoLevel(qc_evaluator)
           /\ ~(base_datum < qc_evaluator.limit_percent_threshold)
           /\ check_datum = 0)
    => (err = "none" /\ qc_value = 400)

Returned(fn) == pc = "done" /\ ret # <<>> /\ ret.fn = fn

\* 1-based position of the sample with timestamp t
PosOf(s, t) == CHOOSE i \in 1..Len(s) : s[i].t = t

MissingAt(s) == {i \in 1..Len(s) : IsNaN(s[i].v)}

\* the positions a reported gap covers
Covered(s, gap) == {i \in 1..Len(s) : PosOf(s, gap.t) <= i /\ i < PosOf(s, gap.t) + gap.count}

\* length of the maximal run of missing samples that holds position i
RunLength(s, i) ==
    Cardinality({j \in 1..Len(s) :
        \A k \in 1..Len(s) : ((j <= k /\ k <= i) \/ (i <= k /\ k <= j)) => k \in MissingAt(s)})

\* C14: the gaps are ordered by start and pairwise disjoint, each starts at
\* the first missing sample of a maximal run of missing samples and has the
\* run's length, and together they cover exactly the missing positions; a
\* series without missing samples gives the empty list.
C14_GapPartition ==
    Returned("gap_finder") =>
        LET g == ret.out
        IN  /\ \A i, j \in 1..Len(g) : i < j =>
                  /\ g[i].t < g[j].t
                  /\ Covered(series, g[i]) \cap Covered(series, g[j]) = {}
            /\ \A i \in 1..Len(g) :
                  LET p == PosOf(series, g[i].t)
                  IN  /\ g[i].t \in Labels(series)
                      /\ p \in MissingAt(series)
                      /\ (p - 1) \notin MissingAt(series)
                      /\ g[i].count = RunLength(series, p)
            /\ UNION {Covered(series, g[i]) : i \in 1..Len(g)} = MissingAt(series)
            /\ MissingAt(series) = {} => g = <<>>

C14_Witness ==
    /\ Returned("gap_finder")
    /\ Len(ret.out) = 2
    /\ 1 \in MissingAt(series)
    /\ Len(series) \in MissingAt(series)
    /\ ret.out[2].count = 2

CountRows(frame, t, grade, code) ==
    Cardinality({i \in 1..Len(frame) :
        frame[i].t = t /\ frame[i].Value = grade /\ frame[i].Code = code})

RowKeys(frame) ==
    {<<frame[i].t, frame[i].Value, frame[i].Code>> : i \in 1..Len(frame)}

\* check_time[i] + max_interval, moved to the first day boundary at or
\* after it when rounding is on
DueTime(i) ==
    LET due == check_series[i].t + ret.max_interval
    IN  IF ret.day_end_rounding
        THEN Day * (CHOOSE d \in 0..(due \div Day) + 1 :
                        d * Day >= due /\ (d - 1) * Day < due)
        ELSE due

\* the checks the pass downgrades after
OverdueChecks ==
    {i \in 1..(Len(check_series) - 1) :
        /\ DueTime(i) < check_series[i + 1].t
        /\ \E j \in 1..Len(ret.qc_frame) :
              /\ ret.qc_frame[j].t = check_series[i].t
              /\ ret.qc_frame[j].Value > ret.downgraded_qc}

AfterPass ==
    /\ pc = "checked"
    /\ ret # <<>>
    /\ ret.fn = "single_downgrade_out_of_validation"

\* C16: a pass adds, for each consecutive pair of checks (i, i+1), one
\* record with the downgraded grade and the tag OOV at due_date[i] exactly
\* when due_date[i] < check_time[i+1] and the grade recorded at
\* check_time[i] is above the downgraded grade; it adds nothing else, so
\* nothing for the last check, and keeps every earlier record.
C16_DowngradeRule ==
    AfterPass =>
        /\ \A key \in RowKeys(qc_frame) \cup RowKeys(ret.qc_frame) :
              CountRows(qc_frame, key[1], key[2], key[3]) =
                  CountRows(ret.qc_frame, key[1], key[2], key[3])
                  + Cardinality({i \in OverdueChecks :
                        key = <<DueTime(i), ret.downgraded_qc, <<"OOV">> >>})
        /\ Len(qc_frame) = Len(ret.qc_frame) + Cardinality(OverdueChecks)
        /\ \A i \in OverdueChecks :
              CountRows(qc_frame, DueTime(i), ret.downgraded_qc, <<"OOV">>) >= 1

\* two checks five months apart, both graded 600, after the 2-month and
\* the 4-month default rule
C16_Witness ==
    /\ AfterPass
    /\ steps = <<"check_data_quality_code">> \o Passes(2)
    /\ Len(check_series) = 2
    /\ check_series[2].t - check_series[1].t = Months(5)
    /\ ret.max_interval = Months(4)
    /\ CountRows(qc_frame, check_series[1].t + Months(2), 500, <<"OOV">>) = 1
    /\ CountRows(qc_frame, check_series[1].t + Months(4), 400, <<"OOV">>) = 1
    /\ CountRows(qc_frame, check_series[1].t + Months(6), 200, <<"OOV">>) = 0

Clamped == pc \in {"clamped", "again"}

\* C17: max_qc_limiter sets every record with a grade above max_qc to
\* max_qc, appends the tag LIM and the ceiling clause to it, and leaves
\* every other record as it was; with max_qc unset nothing changes.
C17_ClampAboveCeiling ==
    Clamped =>
        /\ Len(ret.once) = Len(ret.before)
        /\ \A i \in 1..Len(ret.before) :
              LET old == ret.before[i]
                  new == ret.once[i]
              IN  IF ~IsNaN(max_qc) /\ ~IsNaN(old.Value) /\ old.Value > max_qc
                  THEN /\ new.t = old.t
                       /\ new.Value = max_qc
                       /\ new.Code = old.Code \o <<"LIM">>
                       /\ new.Details = [old.Details EXCEPT !.lim = @ \o <<max_qc>>]
                  ELSE new = old
        /\ IsNaN(max_qc) => ret.once = ret.before

C17_Witness ==
    /\ Clamped
    /\ max_qc = 500
    /\ \E i, j, k \in 1..Len(ret.before) :
          /\ ret.before[i].Value = 600
          /\ ret.once[i].Value = 500
          /\ ret.once[i].Code = <<"CHK", "LIM">>
          /\ ret.before[j].Value = 500
          /\ ret.once[j].Code = <<"OOV">>
          /\ ret.before[k].Value = 100

\* C18: clamping a clamped frame again with the same ceiling changes no
\* grade, tag or detail.
C18_ClampIdempotent ==
    pc = "again" => qc_frame = ret.once

C18_Witness ==
    /\ pc = "again"
    /\ ~IsNaN(max_qc)
    /\ ret.once # ret.before
    /\ \E i \in 1..Len(qc_frame) :
          /\ qc_frame[i].Value = max_qc
          /\ qc_frame[i].Code = <<"OOV">>
    /\ \E i \in 1..Len(qc_frame) :
          /\ qc_frame[i].Value = max_qc
          /\ "LIM" \in Range(qc_frame[i].Code)

Called(fn) == pc \in {"done", "raised"} /\ ret # <<>> /\ ret.fn = fn

InSpan == target_time >= series[1].t /\ target_time <= series[Len(series)].t

\* C19: both functions raise the out-of-range KeyError exactly when the
\* query time is before the first or after the last timestamp of the
\* series, missing samples counted; within the span find_nearest_time
\* returns a timestamp of the series at minimal distance from the query.
C19_OutOfRangeAndNearest ==
    (Called("find_nearest_time") \/ Called("find_nearest_valid_time")) =>
        /\ (err = "KeyError: Timestamp not within data range" /\ pc = "raised")
              <=> ~InSpan
        /\ (Called("find_nearest_time") /\ InSpan) =>
              /\ pc = "done"
              /\ ret.t \in Labels(series)
              /\ \A u \in Labels(series) :
                    Abs(ret.t - target_time) <= Abs(u - target_time)

C19_Witness ==
    /\ Called("find_nearest_time")
    /\ pc = "done"
    /\ target_time \notin Labels(series)
    /\ ret.t \notin ValidTimes(series)
    /\ ValidTimes(series) # {}
    /\ IsNaN(series[1].v)
    /\ target_time < series[2].t

\* C20: within the span find_nearest_valid_time returns the timestamp of a
\* non-missing sample at minimal distance among the non-missing samples,
\* never that of a missing sample.
C20_NearestValid ==
    (Called("find_nearest_valid_time") /\ InSpan) =>
        /\ pc = "done"
        /\ ret.t \in ValidTimes(series)
        /\ \A u \in ValidTimes(series) :
              Abs(ret.t - target_time) <= Abs(u - target_time)

\* the records at or before time t
RecordsUpTo(frame, t) == {i \in 1..Len(frame) : frame[i].t <= t}

GapStarts(s) == {p \in MissingAt(s) : (p - 1) \notin MissingAt(s)}

LongGapAt(s, p, gl) == p \in GapStarts(s) /\ RunLength(s, p) > gl

\* position of the first sample after the gap that starts at p
EndPos(s, p) == p + RunLength(s, p)

FollowedByValid(s, p) == EndPos(s, p) <= Len(s)

HasGapRecord(frame, t) ==
    \E i \in 1..Len(frame) :
        frame[i].t = t /\ frame[i].Value = 100 /\ frame[i].Code = <<"GAP">>

\* the loop has just handled the gap ret.gap (or raised while doing so)
JustProcessed ==
    /\ pc \in {"missing_loop", "raised"}
    /\ ret # <<>>
    /\ ret.fn = "missing_data_quality_code"
    /\ ret.gap # NoGap

GapPos == PosOf(series, ret.gap.t)

\* records of the frame above grade 100 at or before time e
Restorable(frame, e) ==
    {i \in 1..Len(frame) : frame[i].t <= e /\ frame[i].Value > 100}

\* C22: when the call returns, every gap longer than gap_limit that is
\* followed by a valid sample and preceded by a record above 100 has a
\* record with grade 100 and tag GAP at its start; handling a gap of length
\* gap_limit or less adds, changes and removes nothing.
C22_GapRecordAtStart ==
    /\ pc = "returned" =>
          \A p \in 1..Len(series) :
              (/\ LongGapAt(series, p, gap_limit)
               /\ FollowedByValid(series, p)
               /\ \E i \in 1..Len(ret.input) :
                     ret.input[i].t < series[p].t /\ ret.input[i].Value > 100)
              => HasGapRecord(qc_frame, series[p].t)
    /\ (JustProcessed /\ RunLength(series, GapPos) <= gap_limit) =>
          (pc = "missing_loop" /\ qc_frame = ret.before)

C22_Witness ==
    /\ pc = "returned"
    /\ gap_limit = 1
    /\ \E p \in 2..Len(series) :
          /\ LongGapAt(series, p, gap_limit)
          /\ FollowedByValid(series, p)
          /\ HasGapRecord(qc_frame, series[p].t)
          /\ series[p].t \notin Labels(ret.input)
    /\ \E p \in GapStarts(series) : RunLength(series, p) = 1
    /\ Len(qc_frame) > Len(ret.input)

\* C23: a gap longer than gap_limit that runs to the last sample raises
\* nothing and gets its GAP record.
C23_GapToTheEnd ==
    (/\ JustProcessed
     /\ LongGapAt(series, GapPos, gap_limit)
     /\ ~FollowedByValid(series, GapPos))
    => /\ err = "none"
       /\ HasGapRecord(qc_frame, ret.gap.t)

\* C24: after a gap longer than gap_limit that is followed by a valid
\* sample at e, the record at e carries the grade of the latest record
\* above 100 at or before e of the frame as it stood before the gap was
\* handled; the record is still there, above 100, when the call returns.
C24_RestoredGrade ==
    /\ (/\ JustProcessed
         /\ err = "none"
         /\ LongGapAt(series, GapPos, gap_limit)
         /\ FollowedByValid(series, GapPos))
        => LET e == series[EndPos(series, GapPos)].t
               cand == Restorable(ret.before, e)
           IN  /\ e \in Labels(qc_frame)
               /\ \A i \in 1..Len(qc_frame) :
                     qc_frame[i].t = e =>
                        /\ qc_frame[i].Value \notin {0, 100}
                        /\ \E c \in cand :
                              /\ \A d \in cand : ret.before[d].t <= ret.before[c].t
                              /\ qc_frame[i].Value = ret.before[c].Value
    /\ pc = "returned" =>
          \A p \in 1..Len(series) :
              (LongGapAt(series, p, gap_limit) /\ FollowedByValid(series, p)) =>
                  \E i \in 1..Len(qc_frame) :
                      /\ qc_frame[i].t = series[EndPos(series, p)].t
                      /\ qc_frame[i].Value > 100

C24_Witness ==
    /\ JustProcessed
    /\ err = "none"
    /\ LongGapAt(series, GapPos, gap_limit)
    /\ FollowedByValid(series, GapPos)
    /\ LET e == series[EndPos(series, GapPos)].t
       IN  /\ Cardinality(Restorable(ret.before, e)) >= 2
           /\ \E i \in 1..Len(ret.before) :
                 ret.before[i].t = e /\ ret.before[i].Value = 0
           /\ \E i \in 1..Len(qc_frame) :
                 qc_frame[i].t = e /\ qc_frame[i].Value = 500

\* C25: after a gap longer than gap_limit is handled no record is left
\* strictly between the gap's start and the first valid sample after it.
C25_NoRecordInsideGap ==
    (/\ JustProcessed
     /\ err = "none"
     /\ LongGapAt(series, GapPos, gap_limit)
     /\ FollowedByValid(series, GapPos))
    => \A i \in 1..Len(qc_frame) :
          ~(/\ qc_frame[i].t > ret.gap.t
            /\ qc_frame[i].t < series[EndPos(series, GapPos)].t)

\* C30: a gap longer than gap_limit that is followed by a valid sample,
\* with no record above 100 at or before that sample, raises nothing and
\* gets its GAP record.
C30_NothingToRestore ==
    (/\ JustProcessed
     /\ LongGapAt(series, GapPos, gap_limit)
     /\ FollowedByValid(series, GapPos)
     /\ Restorable(ret.before, series[EndPos(series, GapPos)].t) = {})
    => /\ err = "none"
       /\ HasGapRecord(qc_frame, ret.gap.t)

\* C26: every OOV record a pass inserts for the period that follows check i
\* names the timestamp of check i in its detail.
C26_DetailNamesLastInspection ==
    AfterPass =>
        \A i \in OverdueChecks :
            \A j \in 1..Len(qc_frame) :
                (/\ qc_frame[j].t = DueTime(i)
                 /\ qc_frame[j].Code = <<"OOV">>
                 /\ qc_frame[j].Value = ret.downgraded_qc)
                => /\ qc_frame[j].Details.kind = "OOV"
                   /\ qc_frame[j].Details.a = check_series[i].t

ArgReturned(fn) ==
    /\ pc \in {"again", "done"}
    /\ ret # <<>>
    /\ ret.fn = fn

\* C27: when max_qc_limiter, missing_data_quality_code or
\* single_downgrade_out_of_validation returns, the frame that was passed in has
\* the records, grades, tags and details it had before the call.
C27_ArgumentUnchanged ==
    \A fn \in {"max_qc_limiter", "missing_data_quality_code",
                "single_downgrade_out_of_validation"} :
        ArgReturned(fn) => ret.argument = ret.before

\* C28: bulk_downgrade_out_of_validation gives the same set of
\* (timestamp, grade, tag) records for every ordering of the rules of
\* interval_dict (and raises for one ordering exactly when it raises for the
\* other).
C28_RuleOrderIndependent ==
    (ret # <<>> /\ ret.fn = "bulk_downgrade_out_of_validation") =>
        /\ ret.other.err = err
        /\ err = "none" => RowKeys(ret.other.frame) = RowKeys(qc_frame)

C28_Witness ==
    /\ Returned("bulk_downgrade_out_of_validation")
    /\ ret.order # interval_dict.rules
    /\ \E i, j \in 1..Len(qc_frame) :
          /\ qc_frame[i].Code = <<"OOV">>
          /\ qc_frame[j].Code = <<"OOV">>
          /\ qc_frame[i].Value # qc_frame[j].Value
          /\ qc_frame[i].t # qc_frame[j].t
    /\ RowKeys(ret.other.frame) = RowKeys(qc_frame)

\* C29: after check_data_quality_code and any passes of
\* single_downgrade_out_of_validation the record timestamps of the
\* quality-code series are strictly increasing.
C29_StrictlyIncreasing ==
    (pc \in {"checked", "done"} /\ err = "none") =>
        \A i \in 1..(Len(qc_frame) - 1) : qc_frame[i].t < qc_frame[i + 1].t

====
